---- MODULE Spec2Model ----
(***************************************************************************)
(* Model of the adaptive job queue of hooks/useJobQueue.ts, of the         *)
(* circuit breaker of services/circuitBreaker.ts and of the retry helper   *)
(* of services/retry.ts.                                                   *)
(*                                                                         *)
(* The queue runs on one JavaScript thread.  Every action below is one     *)
(* synchronous block of that thread: a call of the control surface         *)
(* (addJobs, pause, resume, cancelAll), a queued microtask (the deferred   *)
(* processNext), or the continuation of one processJob invocation after    *)
(* one of its awaits (the processor promise, the penalty timer, the        *)
(* backoff timer).  The processor is supplied by the caller: how it        *)
(* settles is an input, and so is which of the caller's observer          *)
(* callbacks throw.  The breaker is a second object on the same thread:   *)
(* its actions are the synchronous part of execute(), the continuation of *)
(* execute() after the wrapped operation settles, the manual overrides    *)
(* and the passing of time.                                                *)
(***************************************************************************)
EXTENDS Integers, Sequences, FiniteSets, TLC

\* ---------------------------------------------------------------- bounds
MaxJobs == 2          \* jobs the caller submits in one behaviour
MaxBatch == 2         \* longest array passed to one addJobs call
NumIds == 2           \* distinct job ids the caller uses
MaxPriority == 1      \* priorities are 0..MaxPriority
MaxEmptyCalls == 2    \* onQueueEmpty calls followed between two additions of jobs

\* ------------------------------------------------------- queue options
concurrency == 2      \* options.concurrency
maxRetries == 2       \* options.maxRetries
ErrorThreshold == 2   \* handleError scales down once consecutiveErrors > 2

JobIds == 1..NumIds
Priorities == 0..MaxPriority
Data == 1..MaxJobs    \* payloads; the caller gives every submitted job its own

\* ------------------------------------------------------- error values
\* What a processor can reject with.  originalError is the name of the
\* error an APIError wraps ("none" when it wraps nothing).
DOMAbortError == [name |-> "AbortError", isRetryable |-> FALSE, originalError |-> "none"]
FetchTypeError == [name |-> "TypeError", isRetryable |-> TRUE, originalError |-> "none"]
RawErrors == {DOMAbortError, FetchTypeError}

\* The error classes of services/errors.ts.
RateLimitError == [name |-> "RateLimitError", isRetryable |-> TRUE, originalError |-> "none"]
AuthenticationError == [name |-> "AuthenticationError", isRetryable |-> FALSE, originalError |-> "none"]
ValidationError == [name |-> "ValidationError", isRetryable |-> FALSE, originalError |-> "none"]
ServiceErrors == {RateLimitError, AuthenticationError, ValidationError}

fromError(error) ==
    IF error.name \in {"APIError", "RateLimitError", "AuthenticationError"} THEN error
    ELSE IF error.name = "TypeError"
         THEN [name |-> "APIError", isRetryable |-> TRUE, originalError |-> "TypeError"]
    ELSE IF error.name = "AbortError"
         THEN [name |-> "APIError", isRetryable |-> FALSE, originalError |-> "AbortError"]
    ELSE [name |-> "APIError", isRetryable |-> FALSE, originalError |-> error.name]

\* A processor rejects with the raw error, with its APIError translation or
\* with an error of the service layer.
ProcessorErrors == RawErrors \cup {fromError(e) : e \in RawErrors} \cup ServiceErrors

\* The error is a cancellation: the abort itself or its translation.
IsCancellation(error) ==
    error.name = "AbortError" \/ error.originalError = "AbortError"

\* The test of processJob's catch block: error.name === 'AbortError'.
isAbortError(error) == error.name = "AbortError"

\* isRetryableError: instanceof APIError, then instanceof TypeError.
IsAPIError(error) == error.name \in {"APIError", "RateLimitError", "AuthenticationError"}

isRetryableError(error) ==
    IF IsAPIError(error) THEN error.isRetryable
    ELSE IF error.name = "TypeError" THEN TRUE
    ELSE FALSE

\* What an observer callback throws when it throws.
ObserverError == [name |-> "Error", isRetryable |-> FALSE, originalError |-> "none"]

\* The observer callbacks of the options.
Observers == {"onJobStart", "onJobComplete", "onJobError", "onJobRetry", "onQueueEmpty"}

\* What the settled log keeps of a rejection: what the queue tells apart.
OutcomeKind(error) == IF isAbortError(error) THEN "abort" ELSE "err"

\* ------------------------------------------------------------- state
VARIABLES
    queueRef,               \* pending backlog: sequence of jobs
    activeJobsRef,          \* Map id -> controller (named by its job's data)
    isPausedRef,
    currentConcurrencyRef,
    consecutiveErrorsRef,
    metricsRef,             \* [completed, failed, retried, total]
    state,                  \* the snapshot last written by updateState
    runs,                   \* processJob invocations suspended at an await
    deferred,               \* queued microtasks () => processNext()
    started,                \* onJobStart calls, in order (job data)
    notes,                  \* per job: onJobRetry/onJobComplete/onJobError calls
    settled,                \* per job: how its processor invocations settled
    lastDispatch,           \* the last selection made by processNext
    cancelled,              \* jobs that some cancelAll call covered
    options,                \* the options of the hook: concurrency, throwing observers
    drainSignals,           \* onQueueEmpty calls since jobs were last added
    thrown,                 \* the last synchronous block ended with an exception
    breaker,                \* the fields of one CircuitBreaker
    now,                    \* Date.now()
    pendingOps,             \* operations invoked by execute() and not settled
    observed,               \* what the breaker's callers have seen
    retry                   \* one call of withRetry

queueVars == <<queueRef, activeJobsRef, isPausedRef, currentConcurrencyRef,
               consecutiveErrorsRef, metricsRef, state, runs, deferred,
               started, notes, settled, lastDispatch, cancelled,
               options, drainSignals, thrown>>

breakerVars == <<breaker, now, pendingOps, observed>>

vars == <<queueVars, breakerVars, retry>>

NoJob == [id |-> 0, data |-> 0, priority |-> 0, retries |-> 0]

\* The state as one record, so that the helpers compose as in the code.
\* A synchronous block starts with no exception in flight.
Cur ==
    [queue |-> queueRef, active |-> activeJobsRef, isPaused |-> isPausedRef,
     currentConcurrency |-> currentConcurrencyRef,
     consecutiveErrors |-> consecutiveErrorsRef, metrics |-> metricsRef,
     state |-> state, runs |-> runs, deferred |-> deferred,
     started |-> started, notes |-> notes, settled |-> settled,
     lastDispatch |-> lastDispatch, cancelled |-> cancelled,
     options |-> options, drainSignals |-> drainSignals, thrown |-> FALSE]

Commit(s0) ==
  \E s \in {s0} :
    /\ queueRef' = s.queue
    /\ activeJobsRef' = s.active
    /\ isPausedRef' = s.isPaused
    /\ currentConcurrencyRef' = s.currentConcurrency
    /\ consecutiveErrorsRef' = s.consecutiveErrors
    /\ metricsRef' = s.metrics
    /\ state' = s.state
    /\ runs' = s.runs
    /\ deferred' = s.deferred
    /\ started' = s.started
    /\ notes' = s.notes
    /\ settled' = s.settled
    /\ lastDispatch' = s.lastDispatch
    /\ cancelled' = s.cancelled
    /\ options' = s.options
    /\ s.drainSignals <= MaxEmptyCalls
    /\ drainSignals' = s.drainSignals
    /\ thrown' = s.thrown
    /\ UNCHANGED <<breakerVars, retry>>

\* F(v), with v evaluated once: the handlers hand the state on by value.
Bind(v, F(_)) == CHOOSE out \in {F(t) : t \in {v}} : TRUE

Size(map) == Cardinality(DOMAIN map)

MapSet(map, k, v) == [x \in (DOMAIN map) \cup {k} |-> IF x = k THEN v ELSE map[x]]

MapDelete(map, k) == [x \in (DOMAIN map) \ {k} |-> map[x]]

EmptyMap == [x \in {} |-> 0]

\* ------------------------------------------------------------ helpers
updateState(s0) == Bind(s0, LAMBDA s :
    [s EXCEPT !.state =
        [isProcessing |-> Len(s.queue) > 0 \/ Size(s.active) > 0,
         isPaused |-> s.isPaused,
         totalJobs |-> s.metrics.total,
         completedJobs |-> s.metrics.completed,
         failedJobs |-> s.metrics.failed,
         activeJobs |-> Size(s.active),
         retriedJobs |-> s.metrics.retried,
         averageProcessingTime |-> 0,
         currentConcurrency |-> s.currentConcurrency]])

\* handleSuccess; ramp is the outcome of Math.random() > 0.8.
handleSuccess(s0, ramp) == Bind(s0, LAMBDA s :
    LET s1 == [s EXCEPT !.consecutiveErrors = 0]
    IN  IF s1.currentConcurrency < s.options.concurrency /\ ramp
        THEN updateState([s1 EXCEPT !.currentConcurrency = @ + 1])
        ELSE s1)

Max(a, b) == IF a >= b THEN a ELSE b

\* handleError scales down and returns the penalty timer, or returns a
\* resolved promise.
ScalesDown(s) ==
    s.consecutiveErrors + 1 > ErrorThreshold /\ s.currentConcurrency > 1

handleError(s0) == Bind(s0, LAMBDA s :
    LET s1 == [s EXCEPT !.consecutiveErrors = @ + 1]
    IN  IF ScalesDown(s)
        THEN updateState([s1 EXCEPT !.currentConcurrency = Max(1, @ - 1)])
        ELSE s1)

PriorityOf(job) == job.priority

\* Mutant: a job goes before the jobs of its own priority.
RECURSIVE InsertByPriority_unstable(_, _)
InsertByPriority_unstable(job, sorted) ==
    IF sorted = <<>> THEN <<job>>
    ELSE IF PriorityOf(Head(sorted)) > PriorityOf(job)
         THEN <<Head(sorted)>> \o InsertByPriority_unstable(job, Tail(sorted))
         ELSE <<job>> \o sorted

\* Array.prototype.sort with (a, b) => b.priority - a.priority: stable,
\* descending by priority.
RECURSIVE InsertByPriority(_, _)
InsertByPriority(job, sorted) ==
    IF sorted = <<>> THEN <<job>>
    ELSE IF PriorityOf(Head(sorted)) >= PriorityOf(job)
         THEN <<Head(sorted)>> \o InsertByPriority(job, Tail(sorted))
         ELSE <<job>> \o sorted

\* Mutant: the sort is left out.
SortByPriority_unsorted(q) == q

RECURSIVE SortByPriority(_)
SortByPriority(q) ==
    IF q = <<>> THEN <<>>
    ELSE InsertByPriority(q[Len(q)], SortByPriority(SubSeq(q, 1, Len(q) - 1)))

\* The observer callback throws when it is called.
Throws(s, observer) == observer \in s.options.throwing

\* processJob up to its first await: register the controller, publish,
\* notify, call the processor.  onJobStart is called outside the try: when
\* it throws, the promise of processJob rejects at once, the processor is
\* not called and the finally block does not run.
processJobStart(s0, job) == Bind(s0, LAMBDA s :
    LET s1 == updateState([s EXCEPT !.active = MapSet(@, job.id, job.data)])
        s2 == [s1 EXCEPT !.started = Append(@, job.data)]
    IN  IF Throws(s, "onJobStart") THEN s2
        ELSE [s2 EXCEPT !.runs = @ \cup {[job |-> job, pc |-> "processor", aborted |-> FALSE]}])

\* Mutant: the paused check is left out.
pausedGuard_ignored(s) == FALSE

\* if (isPausedRef.current) return;
pausedGuard(s) == s.isPaused

\* onQueueEmpty?.(): an exception leaves processNext.
onQueueEmpty(s0) == Bind(s0, LAMBDA s :
    [s EXCEPT !.drainSignals = @ + 1,
              !.thrown = @ \/ Throws(s, "onQueueEmpty")])

processNext(s0) == Bind(s0, LAMBDA s :
    IF pausedGuard(s) THEN s
    ELSE IF Size(s.active) >= s.currentConcurrency THEN s
    ELSE IF Len(s.queue) = 0
         THEN IF Size(s.active) = 0 THEN onQueueEmpty(s) ELSE s
    ELSE LET sorted == SortByPriority(s.queue)
             job == Head(sorted)
             s1 == [s EXCEPT !.queue = Tail(sorted),
                             !.lastDispatch = [job |-> job, backlog |-> s.queue]]
             s2 == processJobStart(s1, job)
         IN  IF Size(s2.active) < s2.currentConcurrency /\ Len(s2.queue) > 0
             THEN [s2 EXCEPT !.deferred = @ + 1]
             ELSE s2)

\* Mutant: the finally block does not dispatch.
processJobFinally_noDispatch(s0, r) == Bind(s0, LAMBDA s :
    updateState([s EXCEPT !.active = MapDelete(@, r.job.id), !.runs = @ \ {r}]))

\* The finally block of processJob; r is the invocation that ends.
processJobFinally(s0, r) == Bind(s0, LAMBDA s :
    LET s1 == [s EXCEPT !.active = MapDelete(@, r.job.id),
                        !.runs = @ \ {r}]
    IN  processNext(updateState(s1)))

\* ------------------------------------------------------------- actions
\* The hook after its first render with options opts; n jobs will be added.
QueueInit(opts, n) ==
    /\ queueRef = <<>>
    /\ activeJobsRef = EmptyMap
    /\ isPausedRef = FALSE
    /\ currentConcurrencyRef = opts.concurrency
    /\ consecutiveErrorsRef = 0
    /\ metricsRef = [completed |-> 0, failed |-> 0, retried |-> 0, total |-> 0]
    /\ state = [isProcessing |-> FALSE, isPaused |-> FALSE, totalJobs |-> 0,
                completedJobs |-> 0, failedJobs |-> 0, activeJobs |-> 0,
                retriedJobs |-> 0, averageProcessingTime |-> 0,
                currentConcurrency |-> opts.concurrency]
    /\ runs = {}
    /\ deferred = 0
    /\ started = <<>>
    /\ notes = [d \in 1..n |-> <<>>]
    /\ settled = [d \in 1..n |-> <<>>]
    /\ lastDispatch = [job |-> NoJob, backlog |-> <<>>]
    /\ cancelled = {}
    /\ options = opts
    /\ drainSignals = 0
    /\ thrown = FALSE

\* ------------------------------------------------- breaker construction
\* lastFailure: number | null = null.  Date.now() is never 0.
Null == 0

DEFAULT_CONFIG ==
    [failureThreshold |-> 5, successThreshold |-> 2, timeout |-> 30000,
     volumeThreshold |-> 5]

\* new CircuitBreaker(config), with the default errorFilter or one given.
\* What the callers have seen so far: the last thing that happened to an
\* execute() call (invoked, CircuitOpenError, returned, rethrown), the time
\* of the last counted failure, the counted failures since the
\* last success observed in the closed state (sinceSuccess), the counted
\* failures since that success or since the breaker last became closed
\* (sinceClear), the successes observed since the breaker became
\* half-open (trial), and the calls in flight that were admitted before
\* the breaker last opened (stale).
BreakerInit(config) ==
    /\ breaker = [config |-> config, state |-> "closed", failures |-> 0,
                  successes |-> 0, totalRequests |-> 0, lastFailure |-> Null,
                  lastSuccess |-> Null, halfOpenSuccesses |-> 0]
    /\ now = 1
    /\ pendingOps = 0
    /\ observed = [call |-> "none", retryAfter |-> 0, countedAt |-> Null,
                   sinceSuccess |-> 0, sinceClear |-> 0, trial |-> 0,
                   stale |-> 0]

\* --------------------------------------------------- retry construction
DEFAULT_RETRY_CONFIG ==
    [maxRetries |-> 3, baseDelay |-> 1000, maxDelay |-> 30000,
     backoffMultiplier |-> 2]

\* An error value together with the invocation of the operation that threw
\* it; by = Null for an error that withRetry creates itself.
NoError ==
    [kind |-> "none",
     error |-> [name |-> "none", isRetryable |-> FALSE, originalError |-> "none"],
     by |-> Null]

\* The moment before withRetry({operation, config, signal}) is called;
\* aborted is signal.aborted.  invoked counts the calls of operation,
\* retried those of onRetry, sleeps the backoff timers that fired.
RetryInit(config, aborted) ==
    retry = [config |-> config, pc |-> "start", attempt |-> 0, invoked |-> 0,
             retried |-> 0, sleeps |-> 0, aborted |-> aborted,
             lastError |-> NoError, thrown |-> NoError,
             backoff |-> 0, delay |-> 0]

\* The queue with observers that return, next to a breaker nobody calls.
Init ==
    /\ QueueInit([concurrency |-> concurrency, throwing |-> {}], MaxJobs)
    /\ BreakerInit(DEFAULT_CONFIG)
    /\ RetryInit(DEFAULT_RETRY_CONFIG, FALSE)

QueueIds(q) == {q[i].id : i \in 1..Len(q)}
QueueData(q) == {q[i].data : i \in 1..Len(q)}
RunData(rs) == {r.job.data : r \in rs}

\* The arrays a caller may pass: ids distinct and not tracked by the queue
\* (neither pending nor active), every job with a payload of its own.
Batches(s) ==
    LET free == JobIds \ (QueueIds(s.queue) \cup DOMAIN s.active)
        room == MaxJobs - s.metrics.total
    IN  {b \in UNION {[1..n -> free \X Priorities] : n \in 0..MaxBatch} :
            /\ Len(b) <= room
            /\ \A i, j \in 1..Len(b) : i # j => b[i][1] # b[j][1]}

addJobsResult(s0, b) == Bind(s0, LAMBDA s :
    LET newJobs == [i \in 1..Len(b) |->
                      [id |-> b[i][1], data |-> s.metrics.total + i,
                       priority |-> b[i][2], retries |-> 0]]
        s1 == [s EXCEPT !.queue = @ \o newJobs,
                        !.metrics.total = @ + Len(b),
                        !.drainSignals = IF Len(b) > 0 THEN 0 ELSE @]
    IN  processNext(updateState(s1)))

addJobs == \E b \in Batches(Cur) : Commit(addJobsResult(Cur, b))

pauseResult(s0) == Bind(s0, LAMBDA s : updateState([s EXCEPT !.isPaused = TRUE]))

pause ==
    /\ ~isPausedRef
    /\ Commit(pauseResult(Cur))

resumeResult(s0) == Bind(s0, LAMBDA s : processNext(updateState([s EXCEPT !.isPaused = FALSE])))

resume ==
    /\ isPausedRef
    /\ Commit(resumeResult(Cur))

\* Mutant: the paused flag is left as it is.
cancelAllResult_keepsPaused(s0) == Bind(s0, LAMBDA s :
    LET abortedRuns == {IF r.job.id \in DOMAIN s.active /\ s.active[r.job.id] = r.job.data
                        THEN [r EXCEPT !.aborted = TRUE] ELSE r : r \in s.runs}
        s1 == [s EXCEPT !.runs = abortedRuns,
                        !.active = EmptyMap,
                        !.queue = <<>>,
                        !.cancelled = @ \cup QueueData(s.queue) \cup RunData(s.runs)]
    IN  updateState(s1))

cancelAllResult(s0) == Bind(s0, LAMBDA s :
    LET abortedRuns == {IF r.job.id \in DOMAIN s.active /\ s.active[r.job.id] = r.job.data
                        THEN [r EXCEPT !.aborted = TRUE] ELSE r : r \in s.runs}
        s1 == [s EXCEPT !.runs = abortedRuns,
                        !.active = EmptyMap,
                        !.queue = <<>>,
                        !.isPaused = FALSE,
                        !.cancelled = @ \cup QueueData(s.queue) \cup RunData(s.runs)]
    IN  updateState(s1))

cancelAll == \E s \in {cancelAllResult(Cur)} : Commit(s)

\* queueMicrotask(() => processNext())
runDeferred ==
    /\ deferred > 0
    /\ Commit(processNext([Cur EXCEPT !.deferred = @ - 1]))

\* Mutant: one retry too many.
MayRetry_offByOne(retries) == retries <= maxRetries + 1

\* if (retries <= maxRetries)
MayRetry(retries) == retries <= maxRetries

\* The catch block of processJob, entered with error: by a rejection of the
\* processor, or by an exception of onJobComplete, which is called inside
\* the try.  An exception of onJobRetry or onJobError leaves the catch
\* block; the finally block runs in every case.
catchBlock(s0, r, error) == Bind(s0, LAMBDA s :
    LET retries == r.job.retries + 1
    IN  IF isAbortError(error) THEN processJobFinally(s, r)
        ELSE IF MayRetry(retries)
        THEN LET s1 == [s EXCEPT !.metrics.retried = @ + 1,
                                 !.notes[r.job.data] = Append(@, <<"retry", retries>>)]
                 wait == IF ScalesDown(s1) THEN "penalty" ELSE "backoff"
                 s2 == handleError(s1)
             IN  IF Throws(s, "onJobRetry")
                 THEN processJobFinally([s1 EXCEPT !.thrown = TRUE], r)
                 ELSE [s2 EXCEPT !.runs = (@ \ {r}) \cup {[r EXCEPT !.pc = wait]}]
        ELSE LET s1 == [s EXCEPT !.metrics.failed = @ + 1,
                                 !.notes[r.job.data] = Append(@, <<"error", r.job.retries>>),
                                 !.thrown = Throws(s, "onJobError")]
             IN  processJobFinally(s1, r))

\* The processor promise resolves.
processorResolvesResult(s0, r, ramp) == Bind(s0, LAMBDA s :
    LET s1 == [s EXCEPT !.metrics.completed = @ + 1,
                        !.settled[r.job.data] = Append(@, "ok")]
        s2 == handleSuccess(s1, ramp)
        s3 == [s2 EXCEPT !.notes[r.job.data] = Append(@, <<"complete", r.job.retries>>)]
    IN  IF Throws(s, "onJobComplete") THEN catchBlock(s3, r, ObserverError)
        ELSE processJobFinally(s3, r))

processorResolves ==
    \E r \in runs : \E ramp \in BOOLEAN :
        /\ r.pc = "processor"
        /\ Commit(processorResolvesResult(Cur, r, ramp))

\* The processor promise rejects with error.
processorRejectsResult(s0, r, error) == Bind(s0, LAMBDA s :
    catchBlock([s EXCEPT !.settled[r.job.data] = Append(@, OutcomeKind(error))], r, error))

processorRejects ==
    \E r \in runs : \E error \in ProcessorErrors :
        /\ r.pc = "processor"
        /\ Commit(processorRejectsResult(Cur, r, error))

\* The 5000 ms penalty timer of handleError fires; the backoff timer starts.
\* Timers are macrotasks: none fires while a microtask is queued.
penaltyElapsed ==
    \E r \in runs :
        /\ r.pc = "penalty"
        /\ deferred = 0
        /\ Commit([Cur EXCEPT !.runs = (@ \ {r}) \cup {[r EXCEPT !.pc = "backoff"]}])

\* The backoff timer fires: requeue at the front, then the finally block.
\* Mutant: the job is requeued with its old attempt count.
requeued_sameRetries(job) == job

\* { ...job, retries } with retries = (job.retries || 0) + 1
requeued(job) == [job EXCEPT !.retries = @ + 1]

backoffElapsedResult(s0, r) == Bind(s0, LAMBDA s :
    LET s1 == [s EXCEPT !.queue = <<requeued(r.job)>> \o @]
    IN  processJobFinally(s1, r))

backoffElapsed ==
    \E r \in runs :
        /\ r.pc = "backoff"
        /\ deferred = 0
        /\ Commit(backoffElapsedResult(Cur, r))

Next ==
    \/ addJobs
    \/ pause
    \/ resume
    \/ cancelAll
    \/ runDeferred
    \/ processorResolves
    \/ processorRejects
    \/ penaltyElapsed
    \/ backoffElapsed

Spec == Init /\ [][Next]_vars

\* ------------------------------------------------------------ scenarios
\* The jobs of the ordering scenario as <<id, priority>>: A with priority 1,
\* B with priority 10, C with priority 1.  Job A gets data 1, B 2, C 3.
ScenarioJobs == << <<1, 1>>, <<2, 10>>, <<3, 1>> >>

\* options.concurrency of the scenarios.
ScenarioConcurrency == {1, 5}

ScenarioInit ==
    /\ \E c \in ScenarioConcurrency :
          QueueInit([concurrency |-> c, throwing |-> {}], Len(ScenarioJobs))
    /\ BreakerInit(DEFAULT_CONFIG)
    /\ RetryInit(DEFAULT_RETRY_CONFIG, FALSE)

\* The caller enqueues the next k jobs of the scenario with one call:
\* addJob for k = 1, addJobs for any k.
enqueueResult(s0, k) == Bind(s0, LAMBDA s :
    addJobsResult(s, SubSeq(ScenarioJobs, s.metrics.total + 1, s.metrics.total + k)))

enqueue ==
    \E k \in 1..(Len(ScenarioJobs) - metricsRef.total) :
        Commit(enqueueResult(Cur, k))

ScenarioNext ==
    \/ enqueue
    \/ runDeferred
    \/ processorResolves
    \/ processorRejects
    \/ penaltyElapsed
    \/ backoffElapsed

\* The queue never paused and never cancelled, fed the scenario's jobs.
ScenarioSpec == ScenarioInit /\ [][ScenarioNext]_vars

\* The queue when cancelAll is never called and a paused queue is always
\* resumed: every await of a processJob invocation ends, every queued
\* microtask runs.
LiveNext ==
    \/ addJobs
    \/ pause
    \/ resume
    \/ runDeferred
    \/ processorResolves
    \/ processorRejects
    \/ penaltyElapsed
    \/ backoffElapsed

\* The queue with one observer callback that throws whenever it is called.
ThrowInit ==
    /\ \E o \in Observers :
          QueueInit([concurrency |-> concurrency, throwing |-> {o}], MaxJobs)
    /\ BreakerInit(DEFAULT_CONFIG)
    /\ RetryInit(DEFAULT_RETRY_CONFIG, FALSE)

ThrowSpec == ThrowInit /\ [][LiveNext]_vars

\* ------------------------------------------------------ circuit breaker
MaxTime == 5          \* the clock runs from 1 to MaxTime
MaxRequests == 6      \* execute() calls admitted between two reset() calls
MaxPending == 2       \* operations in flight at once
MaxThreshold == 3     \* config.volumeThreshold; failureThreshold is 2..MaxThreshold
Trials == 2           \* config.successThreshold
Cooldown == 2         \* config.timeout, in clock ticks

\* The configurations the breaker is constructed with.
BreakerConfigs ==
    [failureThreshold : 2..MaxThreshold, successThreshold : {Trials},
     timeout : {Cooldown}, volumeThreshold : {MaxThreshold}]

BCur == [breaker |-> breaker, now |-> now, pendingOps |-> pendingOps,
         observed |-> observed]

BCommit(c0) ==
  \E c \in {c0} :
    /\ breaker' = c.breaker
    /\ now' = c.now
    /\ pendingOps' = c.pendingOps
    /\ observed' = c.observed
    /\ UNCHANGED <<queueVars, retry>>

\* Mutant: entering half-open keeps the old trial count.
transitionTo_keepsTrial(b, newState) ==
    IF newState = "closed"
    THEN [b EXCEPT !.state = newState, !.failures = 0, !.halfOpenSuccesses = 0]
    ELSE [b EXCEPT !.state = newState]

transitionTo(b, newState) ==
    IF newState = "closed"
    THEN [b EXCEPT !.state = newState, !.failures = 0, !.halfOpenSuccesses = 0]
    ELSE IF newState = "half-open"
    THEN [b EXCEPT !.state = newState, !.halfOpenSuccesses = 0]
    ELSE [b EXCEPT !.state = newState]

\* Mutant: the cooldown is never waited for.
shouldAttemptReset_always(b, t) == TRUE

shouldAttemptReset(b, t) ==
    IF b.lastFailure = Null THEN TRUE
    ELSE t - b.lastFailure >= b.config.timeout

getTimeUntilNextAttempt(b, t) ==
    IF b.lastFailure = Null THEN 0
    ELSE Max(0, b.config.timeout - (t - b.lastFailure))

\* getStats().nextAttempt
nextAttempt(b) ==
    IF b.state = "open" THEN b.lastFailure + b.config.timeout ELSE Null

onSuccess(b0, t) == Bind(b0, LAMBDA b :
    LET b1 == [b EXCEPT !.lastSuccess = t, !.successes = @ + 1]
    IN  IF b1.state = "half-open"
        THEN LET b2 == [b1 EXCEPT !.halfOpenSuccesses = @ + 1]
             IN  IF b2.halfOpenSuccesses >= b2.config.successThreshold
                 THEN transitionTo(b2, "closed")
                 ELSE b2
        ELSE IF b1.state = "closed" THEN [b1 EXCEPT !.failures = 0]
        ELSE b1)

\* Mutant: one threshold is enough to open.
Tripped_either(b) ==
    \/ b.totalRequests >= b.config.volumeThreshold
    \/ b.failures >= b.config.failureThreshold

Tripped(b) ==
    /\ b.totalRequests >= b.config.volumeThreshold
    /\ b.failures >= b.config.failureThreshold

\* onFailure(error); counted is config.errorFilter(error).
onFailure(b0, t, counted) == Bind(b0, LAMBDA b :
    IF ~counted THEN b
    ELSE LET b1 == [b EXCEPT !.lastFailure = t, !.failures = @ + 1]
         IN  IF b1.state = "half-open" THEN transitionTo(b1, "open")
             ELSE IF b1.state = "closed" /\ Tripped(b1) THEN transitionTo(b1, "open")
             ELSE b1)

\* execute() up to the await of operation(): the open check, the count,
\* the invocation.
executeResult(c0) == Bind(c0, LAMBDA c :
    LET b == c.breaker
        Admit(b1) == [c EXCEPT !.breaker = [b1 EXCEPT !.totalRequests = @ + 1],
                               !.pendingOps = @ + 1,
                               !.observed.call = "invoked",
                               !.observed.retryAfter = 0]
    IN  IF b.state = "open"
        THEN IF shouldAttemptReset(b, c.now)
             THEN Admit(transitionTo(b, "half-open"))
             ELSE [c EXCEPT !.observed.call = "CircuitOpenError",
                            !.observed.retryAfter = getTimeUntilNextAttempt(b, c.now)]
        ELSE Admit(b))

execute ==
    /\ breaker.totalRequests < MaxRequests
    /\ pendingOps < MaxPending
    /\ BCommit(executeResult(BCur))

\* The call that settles is one admitted before the breaker last opened
\* (old) or a later one.
MaySettle(c, old) ==
    IF old THEN c.observed.stale > 0 ELSE c.pendingOps > c.observed.stale

\* operation() resolves: onSuccess, return result.
operationResolvesResult(c0, old) == Bind(c0, LAMBDA c :
    LET after == onSuccess(c.breaker, c.now)
    IN  [c EXCEPT !.breaker = after,
                  !.pendingOps = @ - 1,
                  !.observed.call = "returned",
                  !.observed.stale = IF old THEN @ - 1 ELSE @,
                  !.observed.sinceSuccess = IF c.breaker.state = "closed" THEN 0 ELSE @,
                  !.observed.sinceClear = IF after.state = "closed" THEN 0 ELSE @,
                  !.observed.trial = IF c.breaker.state = "half-open" /\ after.state = "half-open"
                                     THEN @ + 1 ELSE 0])

operationResolves ==
    \E old \in BOOLEAN :
        /\ pendingOps > 0
        /\ MaySettle(BCur, old)
        /\ BCommit(operationResolvesResult(BCur, old))

\* Mutant: the error filter is not consulted.
errorFilter_ignored(counted) == TRUE

\* config.errorFilter?.(error), given what the configured filter answers.
errorFilter(counted) == counted

\* operation() rejects: onFailure(error), rethrow.  When the breaker opens,
\* every call still in flight was admitted before.
operationRejectsResult(c0, counted, old) == Bind(c0, LAMBDA c :
    LET after == onFailure(c.breaker, c.now, errorFilter(counted))
        opens == after.state = "open" /\ c.breaker.state # "open"
    IN  [c EXCEPT !.breaker = after,
                  !.pendingOps = @ - 1,
                  !.observed.call = "rethrown",
                  !.observed.stale = IF opens THEN c.pendingOps - 1
                                     ELSE IF old THEN @ - 1 ELSE @,
                  !.observed.countedAt = IF after # c.breaker THEN c.now ELSE @,
                  !.observed.sinceSuccess = IF after # c.breaker THEN @ + 1 ELSE @,
                  !.observed.sinceClear = IF after # c.breaker THEN @ + 1 ELSE @,
                  !.observed.trial = IF after.state = "half-open" THEN @ ELSE 0])

operationRejects ==
    \E counted, old \in BOOLEAN :
        /\ pendingOps > 0
        /\ MaySettle(BCur, old)
        /\ BCommit(operationRejectsResult(BCur, counted, old))

\* Time passes.
tick ==
    /\ now < MaxTime
    /\ BCommit([BCur EXCEPT !.now = @ + 1])

resetResult(c0) == Bind(c0, LAMBDA c :
    [c EXCEPT !.breaker = [@ EXCEPT !.state = "closed", !.failures = 0,
                                    !.successes = 0, !.totalRequests = 0,
                                    !.lastFailure = Null, !.lastSuccess = Null,
                                    !.halfOpenSuccesses = 0],
              !.observed.countedAt = Null,
              !.observed.sinceSuccess = 0,
              !.observed.sinceClear = 0,
              !.observed.trial = 0])

reset == \E c \in {resetResult(BCur)} : BCommit(c)

forceOpenResult(c0) == Bind(c0, LAMBDA c :
    [c EXCEPT !.breaker = [transitionTo(@, "open") EXCEPT !.lastFailure = c.now],
              !.observed.stale = IF c.breaker.state = "open" THEN @ ELSE c.pendingOps,
              !.observed.trial = 0])

forceOpen == \E c \in {forceOpenResult(BCur)} : BCommit(c)

forceCloseResult(c0) == Bind(c0, LAMBDA c :
    [c EXCEPT !.breaker = transitionTo(@, "closed"),
              !.observed.sinceClear = 0,
              !.observed.trial = 0])

forceClose == \E c \in {forceCloseResult(BCur)} : BCommit(c)

BreakerNext ==
    \/ execute
    \/ operationResolves
    \/ operationRejects
    \/ tick
    \/ reset
    \/ forceOpen
    \/ forceClose

\* One breaker, constructed with one of the configurations, next to a queue
\* nobody calls.
BreakerStart ==
    /\ QueueInit([concurrency |-> concurrency, throwing |-> {}], MaxJobs)
    /\ \E config \in BreakerConfigs : BreakerInit(config)
    /\ RetryInit(DEFAULT_RETRY_CONFIG, FALSE)

BreakerSpec == BreakerStart /\ [][BreakerNext]_vars

\* ------------------------------------------------------------ withRetry
\* Delays are counted in units of half a second.
Second == 2

MaxRetryOption == 2
MaxBaseDelay == 2
MaxMultiplier == 2
MaxDelayCap == 5
MaxRetryAfter == 1

RetryConfigs ==
    [maxRetries : 1..MaxRetryOption, baseDelay : 0..MaxBaseDelay,
     maxDelay : 0..MaxDelayCap, backoffMultiplier : 1..MaxMultiplier]

\* Math.random() * 1000: a delay in [0, 1000 ms).
Jitters == 0..(Second - 1)

\* The Retry-After header in seconds, 0 for none.
RetryAfters == 0..MaxRetryAfter

Min(a, b) == IF a <= b THEN a ELSE b

RECURSIVE Pow(_, _)
Pow(b, n) == IF n = 0 THEN 1 ELSE b * Pow(b, n - 1)

\* Mutant: the delay is not capped.
calculateBackoff_uncapped(attempt, config, jitter) ==
    config.baseDelay * Pow(config.backoffMultiplier, attempt) + jitter

\* calculateBackoff(attempt, config); jitter is the outcome of
\* Math.random() * 1000.
calculateBackoff(attempt, config, jitter) ==
    LET delay == config.baseDelay * Pow(config.backoffMultiplier, attempt)
    IN  Min(delay + jitter, config.maxDelay)

\* APIError.fromResponse(response) for a response with this status.
fromResponse(status) ==
    [name |-> "APIError", isRetryable |-> (status >= 500 \/ status = 429),
     originalError |-> "none"]

\* new Error(message)
PlainError == [name |-> "Error", isRetryable |-> FALSE, originalError |-> "none"]

\* The error values an operation can throw, each with the kind of failure
\* that produces it: a failed connection makes fetch reject with a
\* TypeError; the timeout of fetchWithRetry and the caller's abort both
\* abort the controller, which makes fetch reject with an AbortError; a
\* response with status 429 becomes a RateLimitError, any other response
\* that is not ok goes through fromResponse; callers may wrap what they
\* caught with fromError.
Classified ==
    {[kind |-> "Network", error |-> e] : e \in {FetchTypeError, fromError(FetchTypeError)}}
    \cup {[kind |-> "Timeout", error |-> e] : e \in {DOMAbortError, fromError(DOMAbortError)}}
    \cup {[kind |-> "Cancelled", error |-> e] : e \in {DOMAbortError, fromError(DOMAbortError)}}
    \cup {[kind |-> "RateLimited", error |-> e] : e \in {RateLimitError, fromResponse(429)}}
    \cup {[kind |-> "Authentication", error |-> e] : e \in {AuthenticationError, fromResponse(401)}}
    \cup {[kind |-> "ServerError", error |-> fromResponse(status)] : status \in {500, 503}}
    \cup {[kind |-> "ClientError", error |-> fromResponse(status)] : status \in {400, 404}}
    \cup {[kind |-> "Validation", error |-> ValidationError]}
    \cup {[kind |-> "Unknown", error |-> e] : e \in {PlainError, fromError(PlainError)}}

\* shouldRetry = isRetryableError, the default.
shouldRetry(error) == isRetryableError(error)

\* Mutant: the signal is not looked at before an attempt.
abortedGuard_ignored(r) == FALSE

\* signal?.aborted at the head of the loop.
abortedGuard(r) == r.aborted

\* Mutant: the last attempt is taken to be one later.
isLastAttempt_offByOne(r) == r.attempt = r.config.maxRetries + 1

isLastAttempt(r) == r.attempt = r.config.maxRetries

\* new DOMException('Aborted', 'AbortError'), thrown by withRetry itself.
AbortedBeforeAttempt == [kind |-> "Cancelled", error |-> DOMAbortError, by |-> Null]

\* The head of the for loop up to the await of operation(), and the throw
\* behind the loop.
loopHead(r0) == Bind(r0, LAMBDA r :
    IF r.attempt > r.config.maxRetries
    THEN [r EXCEPT !.pc = "rejected", !.thrown = r.lastError]
    ELSE IF abortedGuard(r)
    THEN [r EXCEPT !.pc = "rejected", !.thrown = AbortedBeforeAttempt]
    ELSE [r EXCEPT !.pc = "operation", !.invoked = @ + 1])

\* withRetry({operation, config, signal}) is called.
withRetry ==
    /\ retry.pc = "start"
    /\ retry' = loopHead(retry)
    /\ UNCHANGED <<queueVars, breakerVars>>

\* The caller aborts the signal.
abort ==
    /\ retry.pc \in {"start", "operation", "sleep"}
    /\ ~retry.aborted
    /\ retry' = [retry EXCEPT !.aborted = TRUE]
    /\ UNCHANGED <<queueVars, breakerVars>>

\* operation() resolves: withRetry returns its result.
attemptResolves ==
    /\ retry.pc = "operation"
    /\ retry' = [retry EXCEPT !.pc = "resolved"]
    /\ UNCHANGED <<queueVars, breakerVars>>

\* operation() rejects with the error of case c: the catch block up to the
\* await of sleep(delay).
attemptRejectsResult(r0, c, jitter, retryAfter) == Bind(r0, LAMBDA r :
    LET error == [kind |-> c.kind, error |-> c.error, by |-> r.invoked]
        r1 == [r EXCEPT !.lastError = error]
    IN  IF r1.aborted THEN [r1 EXCEPT !.pc = "rejected", !.thrown = error]
        ELSE IF isLastAttempt(r1) \/ ~shouldRetry(c.error)
        THEN [r1 EXCEPT !.pc = "rejected", !.thrown = error]
        ELSE LET backoff == calculateBackoff(r1.attempt, r1.config, jitter)
                 delay == IF c.error.name = "RateLimitError" /\ retryAfter # 0
                          THEN Max(backoff, retryAfter * Second)
                          ELSE backoff
             IN  [r1 EXCEPT !.backoff = backoff, !.delay = delay,
                            !.retried = @ + 1, !.pc = "sleep"])

attemptRejects ==
    \E c \in Classified, jitter \in Jitters, retryAfter \in RetryAfters :
        /\ retry.pc = "operation"
        /\ retry' = attemptRejectsResult(retry, c, jitter, retryAfter)
        /\ UNCHANGED <<queueVars, breakerVars>>

\* The timer of sleep(delay) fires: the loop goes on with the next attempt.
sleepElapsedResult(r0) == Bind(r0, LAMBDA r :
    loopHead([r EXCEPT !.sleeps = @ + 1, !.attempt = @ + 1]))

sleepElapsed ==
    /\ retry.pc = "sleep"
    /\ retry' = sleepElapsedResult(retry)
    /\ UNCHANGED <<queueVars, breakerVars>>

RetryNext == withRetry \/ abort \/ attemptResolves \/ attemptRejects \/ sleepElapsed

\* A call of withRetry with one of the configurations.
RetryStart ==
    /\ QueueInit([concurrency |-> concurrency, throwing |-> {}], MaxJobs)
    /\ BreakerInit(DEFAULT_CONFIG)
    /\ \E config \in RetryConfigs : RetryInit(config, FALSE)

RetrySpec == RetryStart /\ [][RetryNext]_vars

\* ------------------------------------------------ observations of a run
Kinds(log) == {log[i][1] : i \in 1..Len(log)}

StartCount(log, d) == Cardinality({i \in 1..Len(log) : log[i] = d})

Submitted(d) == d <= metricsRef.total

Terminal(d) == Kinds(notes[d]) \cap {"complete", "error"} # {}

TerminalCount(d) ==
    Cardinality({i \in 1..Len(notes[d]) : notes[d][i][1] \in {"complete", "error"}})

RejectedAbort(d) == \E i \in 1..Len(settled[d]) : settled[d][i] = "abort"

RetryNotes(k) == [i \in 1..k |-> <<"retry", i>>]

AllErr(st, n) == \A i \in 1..n : st[i] = "err"

\* ------------------------------------------------------------- claims

\* C1: in every reachable state 0 <= active jobs <= current adaptive
\* concurrency limit <= configured maximum concurrency.
C1_ActiveWithinLimit ==
    /\ 0 <= Size(activeJobsRef)
    /\ Size(activeJobsRef) <= currentConcurrencyRef
    /\ currentConcurrencyRef <= concurrency

\* C2: no job tracked by the queue (pending, or in an invocation of
\* processJob) has more than maxRetries retries; a job that fails with its
\* retries used up is permanently failed at that failure and is neither
\* pending nor in processing afterwards.
C2_RetriesBounded ==
    /\ \A i \in 1..Len(queueRef) : queueRef[i].retries <= maxRetries
    /\ \A r \in runs : r.job.retries <= maxRetries
    /\ \A r \in runs : \A error \in ProcessorErrors :
          (r.pc = "processor" /\ r.job.retries = maxRetries /\ ~isAbortError(error)) =>
              LET after == processorRejectsResult(Cur, r, error)
              IN  /\ after.notes[r.job.data] =
                        Append(notes[r.job.data], <<"error", maxRetries>>)
                  /\ r.job.data \notin QueueData(after.queue) \cup RunData(after.runs)
    /\ \A d \in Data :
          "error" \in Kinds(notes[d]) => d \notin QueueData(queueRef) \cup RunData(runs)

C2_Witness ==
    \E d \in Data :
        /\ notes[d] = RetryNotes(maxRetries) \o << <<"error", maxRetries>> >>
        /\ \E r \in runs : r.job.retries = maxRetries

\* C3: a job whose processor fails k times with an error that is no
\* cancellation and then succeeds gets exactly k onJobRetry calls, then one
\* onJobComplete with attempt count k, and no onJobError; a job whose
\* processor fails maxRetries+1 times gets exactly maxRetries onJobRetry
\* calls, then one onJobError, and the failed counter counts it once.
C3_RetryNotifications ==
    /\ \A d \in Data :
          LET st == settled[d]
              n == Len(st)
          IN  /\ (n > 0 /\ st[n] = "ok" /\ AllErr(st, n - 1)) =>
                    notes[d] = RetryNotes(n - 1) \o << <<"complete", n - 1>> >>
              /\ (n = maxRetries + 1 /\ AllErr(st, n)) =>
                    notes[d] = RetryNotes(maxRetries) \o << <<"error", maxRetries>> >>
              /\ n <= maxRetries + 1
    /\ metricsRef.failed = Cardinality({d \in Data : "error" \in Kinds(notes[d])})

C3_Witness ==
    \E d1, d2 \in Data :
        /\ settled[d1] = [i \in 1..(maxRetries + 1) |-> IF i <= maxRetries THEN "err" ELSE "ok"]
        /\ settled[d2] = [i \in 1..(maxRetries + 1) |-> "err"]
        /\ metricsRef.failed = 1

\* C4: when cancelAll is never called, a paused queue is always resumed and
\* every processor settles, every job added gets onJobComplete or
\* onJobError: from some point on, every job submitted has one of the two.
C4_EveryJobTerminal ==
    <>[](\A d \in Data : Submitted(d) => Terminal(d))

\* What does hold under the same assumptions: dispatch never stalls.  A job
\* goes without onJobComplete and onJobError only if its processor rejected
\* with an error named AbortError, and no job gets both or either twice.
DispatchNeverStalls ==
    /\ <>[](\A d \in Data : Submitted(d) => (Terminal(d) \/ RejectedAbort(d)))
    /\ [](\A d \in Data : TerminalCount(d) <= 1)

\* C5: a job that a cancelAll call covered (pending, active or waiting out
\* a retry delay) is never started again and never returns to the backlog.
C5_CancelledNeverRestarted ==
    [][\A d \in cancelled :
          /\ StartCount(started', d) = StartCount(started, d)
          /\ d \notin QueueData(queueRef')]_vars

\* C6: when the processor of a job that cancelAll aborted rejects, or when
\* a processor rejects with a cancellation error, the job is not retried,
\* the failed and retried counters keep their values and neither onJobError
\* nor onJobRetry is called.
C6_CancelledNotRetried ==
    \A r \in runs : \A error \in ProcessorErrors :
        (r.pc = "processor" /\ (r.aborted \/ IsCancellation(error))) =>
            LET after == processorRejectsResult(Cur, r, error)
            IN  /\ after.metrics.failed = metricsRef.failed
                /\ after.metrics.retried = metricsRef.retried
                /\ after.notes = notes
                /\ r.job.data \notin QueueData(after.queue) \cup RunData(after.runs)

\* C7: once cancelAll has been called, the reported active count equals the
\* number of jobs added since that are in processing, whenever the
\* cancelled jobs' processors settle.
C7_ActiveCountAfterCancel ==
    cancelled # {} =>
        state.activeJobs = Cardinality({r \in runs : r.job.data \notin cancelled})

\* C8: a second cancelAll right after a first changes nothing, and the
\* state after cancelAll has an empty backlog, no active entry and the
\* paused flag cleared.
C8_CancelAllIdempotent ==
    [][cancelAll =>
          /\ cancelAllResult(Cur)' = Cur'
          /\ queueRef' = <<>>
          /\ Size(activeJobsRef') = 0
          /\ ~isPausedRef'
          /\ state'.activeJobs = 0 /\ ~state'.isPaused /\ ~state'.isProcessing]_vars

C8_Witness ==
    /\ queueRef = <<>>
    /\ Size(activeJobsRef) = 0
    /\ \E r \in runs : r.aborted /\ r.pc = "processor"
    /\ \E r \in runs : r.pc = "backoff"
    /\ cancelled # {}

\* C9: a step that begins and ends with the queue paused starts no job,
\* whichever handler takes it; and a processor that resolves while the
\* queue is paused is recorded as completed.
C9_PausedStartsNothing ==
    [][isPausedRef =>
          /\ isPausedRef' => started' = started
          /\ \A r \in runs :
                (r.pc = "processor" /\ Len(settled'[r.job.data]) > Len(settled[r.job.data])
                   /\ settled'[r.job.data][Len(settled'[r.job.data])] = "ok") =>
                    /\ metricsRef'.completed = metricsRef.completed + 1
                    /\ state'.completedJobs = metricsRef'.completed
                    /\ notes'[r.job.data] = Append(notes[r.job.data], <<"complete", r.job.retries>>)]_vars

C9_Witness ==
    /\ isPausedRef
    /\ Size(activeJobsRef) = 0
    /\ \E i \in 1..Len(queueRef) : queueRef[i].retries > 0
    /\ metricsRef.completed > 0

\* C10: the job processNext starts has the highest priority of the backlog
\* at that moment and is the first of that priority in backlog order; no
\* invocation in progress is ended or aborted by the start of another job.
C10_HighestPriorityFirst ==
    /\ [](lastDispatch.job # NoJob =>
            LET b == lastDispatch.backlog
                j == lastDispatch.job
            IN  \E i \in 1..Len(b) :
                    /\ b[i] = j
                    /\ \A k \in 1..Len(b) : PriorityOf(b[k]) <= PriorityOf(j)
                    /\ \A k \in 1..(i - 1) : PriorityOf(b[k]) < PriorityOf(j))
    /\ [][Len(started') > Len(started) =>
            \A r \in runs :
                \/ r \in runs'
                \/ r.pc = "backoff"
                \/ Len(settled'[r.job.data]) = Len(settled[r.job.data]) + 1]_vars

C10_Witness ==
    /\ Len(lastDispatch.backlog) = 2
    /\ lastDispatch.backlog[2] = lastDispatch.job
    /\ lastDispatch.backlog[1].retries > 0
    /\ \E r \in runs : r.job = lastDispatch.job

\* The jobs in the order of their first onJobStart call.
RECURSIVE FirstStarts(_)
FirstStarts(log) ==
    IF log = <<>> THEN <<>>
    ELSE LET rest == FirstStarts(SubSeq(log, 1, Len(log) - 1))
             d == log[Len(log)]
         IN  IF \E i \in 1..Len(rest) : rest[i] = d THEN rest ELSE Append(rest, d)

IsPrefix(a, b) == Len(a) <= Len(b) /\ SubSeq(b, 1, Len(a)) = a

\* The processJob invocations whose processor is executing.
Executing(rs) == {r \in rs : r.pc = "processor"}

Waiting(rs) == {r \in rs : r.pc \in {"penalty", "backoff"}}

OkCount(d) == Cardinality({i \in 1..Len(settled[d]) : settled[d][i] = "ok"})

\* C11: with concurrency 1 and an idle unpaused queue, jobs A (priority 1),
\* B (priority 10), C (priority 1) enqueued in that order start in the order
\* B, A, C, whichever calls enqueue them.
C11_StartOrderBAC ==
    options.concurrency = 1 => IsPrefix(FirstStarts(started), <<2, 1, 3>>)

\* C11 as the code has it: the first call starts a job at once.  When that
\* call enqueues A alone (addJob), A starts first and the order is A, B, C;
\* when it enqueues A and B together (addJobs), B starts first and the
\* order is B, A, C.
C11_StartOrderByFirstCall ==
    options.concurrency = 1 =>
        /\ metricsRef.total = 0 =>
              \A k \in 1..Len(ScenarioJobs) :
                  enqueueResult(Cur, k).started = IF k = 1 THEN <<1>> ELSE <<2>>
        /\ started # <<>> =>
              IsPrefix(FirstStarts(started),
                       IF started[1] = 2 THEN <<2, 1, 3>> ELSE <<1, 2, 3>>)

C11_Witness ==
    /\ options.concurrency = 1
    /\ FirstStarts(started) = <<2, 1, 3>>
    /\ \A d \in 1..3 : settled[d] = <<"ok">>

\* C12: onQueueEmpty is called at most once between two additions of jobs:
\* once the queue has drained, no later dispatch attempt signals again.
C12_OneShotPerDrain ==
    drainSignals <= 1

\* C13: a failure that brings the consecutive-error counter above 2 lowers
\* the limit by one (not below 1), and while the penalty delay of such a
\* failure is running the queue starts no job.
C13_PenaltyBeforeDispatch ==
    /\ [](\A r \in runs : \A error \in ProcessorErrors :
            (r.pc = "processor" /\ ~isAbortError(error) /\ MayRetry(r.job.retries + 1)
               /\ consecutiveErrorsRef + 1 > ErrorThreshold) =>
                processorRejectsResult(Cur, r, error).currentConcurrency =
                    Max(1, currentConcurrencyRef - 1))
    /\ [][(\E r \in runs : r.pc = "penalty" /\ r \in runs') => started' = started]_vars

\* C14: a processor failure with an error that is no cancellation and that
\* isRetryableError rejects fails the job at that failure: onJobError is
\* called, onJobRetry is not, and the job is not kept for a retry.
C14_NonRetryableFailsAtOnce ==
    \A r \in runs : \A error \in ProcessorErrors :
        (r.pc = "processor" /\ ~IsCancellation(error) /\ ~isRetryableError(error)) =>
            LET after == processorRejectsResult(Cur, r, error)
            IN  /\ after.notes[r.job.data] =
                      Append(notes[r.job.data], <<"error", r.job.retries>>)
                /\ r.job.data \notin QueueData(after.queue) \cup RunData(after.runs)

\* C15: with an observer that throws, every active entry belongs to a
\* processJob invocation that is still in progress, no job's processor runs
\* again after it succeeded, and a job whose last failure is over is
\* waiting for its retry, pending again, or reported by onJobError.
C15_ThrowingObserverHarmless ==
    /\ \A id \in DOMAIN activeJobsRef : \E r \in runs : r.job.id = id
    /\ \A d \in Data : OkCount(d) <= 1
    /\ \A d \in Data :
          (OkCount(d) = 1) => d \notin QueueData(queueRef) \cup RunData(runs)
    /\ \A d \in Data :
          (Len(settled[d]) > 0 /\ settled[d][Len(settled[d])] = "err") =>
              \/ d \in QueueData(queueRef) \cup RunData(runs)
              \/ "error" \in Kinds(notes[d])

\* C16: no call of addJobs (addJob), pause, resume or cancelAll ends with an
\* exception, in any state and with any observer throwing.
C16_ControlSurfaceNeverThrows ==
    /\ \A b \in Batches(Cur) : ~addJobsResult(Cur, b).thrown
    /\ ~pauseResult(Cur).thrown
    /\ ~resumeResult(Cur).thrown
    /\ ~cancelAllResult(Cur).thrown

\* C17: while a failed job waits out its penalty or backoff delay, a queue
\* that is not paused, has a backlog and has no dispatch queued runs as many
\* processors as the current limit allows.
C17_FailureNeverBlocks ==
    (Waiting(runs) # {} /\ ~isPausedRef /\ Len(queueRef) > 0 /\ deferred = 0) =>
        Cardinality(Executing(runs)) >= currentConcurrencyRef

\* C18: execute() on an open breaker with less than timeout elapsed since
\* the last counted failure rejects with CircuitOpenError, whose retryAfter
\* is the time left until the next attempt and is positive; the operation
\* is not invoked and no field of the breaker changes.
C18_OpenFailsFast ==
    (breaker.state = "open" /\ observed.countedAt # Null
       /\ now - observed.countedAt < breaker.config.timeout) =>
        LET after == executeResult(BCur)
        IN  /\ after.observed.call = "CircuitOpenError"
            /\ after.observed.retryAfter > 0
            /\ after.observed.retryAfter = nextAttempt(breaker) - now
            /\ after.pendingOps = pendingOps
            /\ after.breaker = breaker

C18_Witness ==
    /\ breaker.state = "open"
    /\ breaker.failures >= breaker.config.failureThreshold
    /\ observed.countedAt = breaker.lastFailure
    /\ now - observed.countedAt = 1
    /\ observed.call = "CircuitOpenError"
    /\ observed.retryAfter = breaker.config.timeout - 1
    /\ pendingOps = 0

\* C19: execute() on an open breaker whose cooldown has elapsed makes it
\* half-open with a trial count of 0 and invokes the operation; a half-open
\* breaker has counted the successes observed since it became half-open,
\* fewer than successThreshold; the success that makes them successThreshold
\* closes it with failures 0, an earlier one leaves it half-open; a counted
\* failure opens it; a failure that is not counted changes nothing.
C19_RecoveryCycle ==
    /\ (breaker.state = "open" /\ now - breaker.lastFailure >= breaker.config.timeout) =>
          LET after == executeResult(BCur)
          IN  /\ after.breaker.state = "half-open"
              /\ after.breaker.halfOpenSuccesses = 0
              /\ after.observed.call = "invoked"
              /\ after.pendingOps = pendingOps + 1
    /\ breaker.state = "half-open" =>
          /\ breaker.halfOpenSuccesses = observed.trial
          /\ observed.trial < breaker.config.successThreshold
          /\ LET ok == onSuccess(breaker, now)
              IN  IF observed.trial + 1 = breaker.config.successThreshold
                  THEN ok.state = "closed" /\ ok.failures = 0
                  ELSE ok.state = "half-open" /\ ok.halfOpenSuccesses = observed.trial + 1
          /\ onFailure(breaker, now, TRUE).state = "open"
          /\ onFailure(breaker, now, FALSE) = breaker

C19_Witness ==
    /\ breaker.state = "half-open"
    /\ observed.trial = breaker.config.successThreshold - 1
    /\ observed.trial > 0
    /\ observed.call = "invoked"
    /\ observed.countedAt # Null
    /\ breaker.failures >= breaker.config.failureThreshold
    /\ pendingOps > 0

\* C20: a counted failure opens a closed breaker exactly when it leaves
\* totalRequests >= volumeThreshold and the number of counted failures
\* since the last success observed in the closed state >= failureThreshold.
C20_OpensOnFailuresSinceSuccess ==
    breaker.state = "closed" =>
        (onFailure(breaker, now, TRUE).state = "open" <=>
            /\ breaker.totalRequests >= breaker.config.volumeThreshold
            /\ observed.sinceSuccess + 1 >= breaker.config.failureThreshold)

\* C20 as the code has it: the failure counter is the number of counted
\* failures since the last success observed in the closed state or since
\* the breaker last became closed (from half-open, by forceClose or by
\* reset); a counted failure opens a closed breaker exactly when it leaves
\* totalRequests >= volumeThreshold and that counter >= failureThreshold;
\* a success and a failure that is not counted leave it closed.
C20_OpensOnBothThresholds ==
    /\ breaker.failures = observed.sinceClear
    /\ breaker.state = "closed" =>
          /\ LET after == onFailure(breaker, now, TRUE)
              IN  /\ after.failures = observed.sinceClear + 1
                  /\ after.state = "open" <=>
                        /\ after.totalRequests >= breaker.config.volumeThreshold
                        /\ after.failures >= breaker.config.failureThreshold
          /\ onSuccess(breaker, now).state = "closed"
          /\ onSuccess(breaker, now).failures = 0
          /\ onFailure(breaker, now, FALSE) = breaker

C20_Witness ==
    /\ breaker.state = "open"
    /\ breaker.config.failureThreshold = MaxThreshold
    /\ breaker.failures = breaker.config.failureThreshold
    /\ breaker.totalRequests = breaker.config.volumeThreshold
    /\ observed.sinceSuccess = breaker.failures
    /\ observed.countedAt = breaker.lastFailure
    /\ pendingOps = 0

\* The breaker admits a call made now.
Admits == breaker.state # "open" \/ shouldAttemptReset(breaker, now)

\* C21 (as stated): a call whose operation fails with an error the filter
\* excludes leaves the breaker as it was before the call: state, failures,
\* successes, half-open successes, lastFailure and the request count.
C21_ExcludedCallChangesNothing ==
    Admits =>
        LET admitted == executeResult(BCur)
            after == operationRejectsResult(admitted, FALSE, FALSE)
        IN  after.breaker = breaker

\* C21 (amended): handling the excluded error changes nothing of the
\* breaker and the error is rethrown; over the whole call the request count
\* has grown by one at admission (and an open breaker whose cooldown has
\* elapsed has become half-open at admission), nothing else has changed.
C21_ExcludedOutcomeChangesNothing ==
    /\ \A old \in BOOLEAN :
          (pendingOps > 0 /\ MaySettle(BCur, old)) =>
              LET after == operationRejectsResult(BCur, FALSE, old)
              IN  /\ after.breaker = breaker
                  /\ after.observed.call = "rethrown"
                  /\ after.observed.countedAt = observed.countedAt
    /\ Admits =>
          LET admitted == executeResult(BCur)
              after == operationRejectsResult(admitted, FALSE, FALSE)
              entered == IF breaker.state = "open"
                         THEN transitionTo(breaker, "half-open") ELSE breaker
          IN  /\ after.breaker = admitted.breaker
              /\ after.breaker = [entered EXCEPT !.totalRequests = @ + 1]

\* Every call so far failed with an excluded error: requests were counted,
\* no failure and no success was.
C21_Witness ==
    /\ observed.call = "rethrown"
    /\ observed.countedAt = Null
    /\ pendingOps = 0
    /\ breaker.totalRequests >= 2
    /\ breaker.failures = 0
    /\ breaker.successes = 0
    /\ breaker.state = "closed"

\* C27: whenever control is back with the event loop, the published
\* snapshot (activeJobs, totalJobs, completedJobs, failedJobs, retriedJobs,
\* isPaused, isProcessing, currentConcurrency) equals the values derived
\* from the internal state.
C27_SnapshotMatchesInternalState == state = updateState(Cur).state

\* C30: whenever the queue is not paused, the backlog is not empty and no
\* deferred dispatch is scheduled, at least as many jobs are active as the
\* current concurrency limit allows.
C30_WorkConserving ==
    (~isPausedRef /\ Len(queueRef) > 0 /\ deferred = 0) =>
        Size(activeJobsRef) >= currentConcurrencyRef

\* A job waits in the backlog of a running queue whose limit was scaled
\* down, with exactly as many jobs active as the reduced limit allows.
C30_Witness ==
    /\ ~isPausedRef
    /\ Len(queueRef) > 0
    /\ deferred = 0
    /\ currentConcurrencyRef < options.concurrency
    /\ Size(activeJobsRef) = currentConcurrencyRef

\* C28: a closed breaker opens at the first counted failure that meets both
\* thresholds, and a call admitted before the breaker opened whose failure
\* arrives after it has opened causes no further state transition.
C28_LateFailureCausesNoTransition ==
    /\ (breaker.state = "closed" /\ pendingOps > observed.stale) =>
          LET after == operationRejectsResult(BCur, TRUE, FALSE).breaker
          IN  after.state = "open" <=>
                  /\ breaker.totalRequests >= breaker.config.volumeThreshold
                  /\ breaker.failures + 1 >= breaker.config.failureThreshold
    /\ observed.stale > 0 =>
          \A counted \in BOOLEAN :
              operationRejectsResult(BCur, counted, TRUE).breaker.state = breaker.state

\* C29: while the breaker is open, the failure of a call admitted before it
\* opened does not change nextAttempt (lastFailure + timeout).
C29_LateFailureKeepsCooldown ==
    (breaker.state = "open" /\ observed.stale > 0) =>
        \A counted \in BOOLEAN :
            nextAttempt(operationRejectsResult(BCur, counted, TRUE).breaker)
                = nextAttempt(breaker)

\* C22: withRetry never invokes the operation once the signal is aborted;
\* when the signal is found aborted before an attempt (the first one, or the
\* one after a backoff sleep) withRetry rejects with an AbortError of its
\* own instead.
C22_NoAttemptOnceAborted ==
    [][retry.aborted =>
          /\ retry'.invoked = retry.invoked
          /\ (retry.pc \in {"start", "sleep"} /\ retry'.pc # retry.pc) =>
                (retry'.pc = "rejected" /\ retry'.thrown = AbortedBeforeAttempt)]_vars

\* The signal was aborted during the first backoff sleep: no second attempt.
C22_Witness ==
    /\ retry.pc = "rejected"
    /\ retry.thrown = AbortedBeforeAttempt
    /\ retry.aborted
    /\ retry.invoked = 1
    /\ retry.sleeps = 1

\* C23: when the signal is aborted during a backoff sleep, the sleep is
\* abandoned before its timer fires: no timer of an aborted call fires.
C23_AbortWakesSleep ==
    [][retry.aborted => retry'.sleeps = retry.sleeps]_vars

\* C24: the operation is invoked at most maxRetries + 1 times; a call that
\* is not cancelled and rejects with an error that shouldRetry accepts has
\* invoked the operation maxRetries + 1 times, has called onRetry
\* maxRetries times and rejects with the very error of the last attempt;
\* an error that shouldRetry refuses rejects the call at once, unchanged,
\* without a further attempt.
C24_BoundedAttempts ==
    /\ retry.invoked <= retry.config.maxRetries + 1
    /\ (retry.pc = "rejected" /\ ~retry.aborted /\ shouldRetry(retry.thrown.error)) =>
          /\ retry.invoked = retry.config.maxRetries + 1
          /\ retry.retried = retry.config.maxRetries
          /\ retry.thrown = retry.lastError
          /\ retry.thrown.by = retry.invoked
    /\ (retry.pc = "operation" /\ ~retry.aborted) =>
          \A c \in Classified, jitter \in Jitters, retryAfter \in RetryAfters :
              ~shouldRetry(c.error) =>
                  LET after == attemptRejectsResult(retry, c, jitter, retryAfter)
                  IN  /\ after.pc = "rejected"
                      /\ after.thrown = [kind |-> c.kind, error |-> c.error,
                                         by |-> retry.invoked]
                      /\ after.invoked = retry.invoked
                      /\ after.retried = retry.retried
                      /\ after.sleeps = retry.sleeps

\* Every attempt failed with a retryable error and nobody cancelled.
C24_Witness ==
    /\ retry.pc = "rejected"
    /\ ~retry.aborted
    /\ shouldRetry(retry.thrown.error)
    /\ retry.config.maxRetries = MaxRetryOption
    /\ retry.invoked = MaxRetryOption + 1
    /\ retry.retried = MaxRetryOption
    /\ retry.sleeps = MaxRetryOption

\* C25: the retryability predicate is true exactly for the errors of kind
\* Network, Timeout, RateLimited and ServerError.
C25_RetryableExactlyForRetryableKinds ==
    retry.lastError # NoError =>
        (isRetryableError(retry.lastError.error) <=> retry.lastError.kind \in {"Network", "Timeout", "RateLimited", "ServerError"})

\* C26: the backoff without jitter does not decrease from one attempt to the
\* next, and with any jitter it never exceeds maxDelay.
C26_BackoffMonotoneAndCapped ==
    /\ \A attempt \in 0..MaxRetryOption :
          /\ calculateBackoff(attempt, retry.config, 0)
                <= calculateBackoff(attempt + 1, retry.config, 0)
          /\ \A jitter \in Jitters :
                calculateBackoff(attempt, retry.config, jitter) <= retry.config.maxDelay
    /\ retry.backoff <= retry.config.maxDelay

\* A second backoff that the cap has cut down.
C26_Witness ==
    /\ retry.pc = "sleep"
    /\ retry.attempt >= 1
    /\ retry.config.maxDelay > 0
    /\ retry.config.baseDelay * Pow(retry.config.backoffMultiplier, retry.attempt)
          > retry.config.maxDelay
    /\ retry.backoff = retry.config.maxDelay

\* One step of the work in progress: a queued microtask, a processor
\* settling, a timer firing.
Work ==
    \/ runDeferred
    \/ processorResolves
    \/ processorRejects
    \/ penaltyElapsed
    \/ backoffElapsed

LiveSpec ==
    /\ Init
    /\ [][LiveNext]_vars
    /\ WF_vars(resume)
    /\ WF_vars(Work)
====
